---- MODULE Spec2Model ----
(***************************************************************************)
(* gpio_sync: the shared timestamp slot (IpShMem / IpShMemData over a      *)
(* System V shared memory segment), the recorder's slot write (gtimer) and *)
(* the oscillator's slot read and wakeup decision (gsync).                 *)
(*                                                                         *)
(* Two processes, "rec" and "osc", each own one IpShMem handle.  Every     *)
(* system call is one atomic step; the statements of Initialize and        *)
(* Shutdown between two system calls belong to the step of the call that   *)
(* precedes them.                                                          *)
(***************************************************************************)
EXTENDS Integers, FiniteSets, Sequences, TLC

VARIABLES
    pc,               \* position of each process
    h,                \* the IpShMem handle of each process
    errno,            \* the errno of each process
    ret,              \* what the last Initialize of each process returned
    shm,              \* the kernel's shared memory segments, by shmid
    maps,             \* each process's address space: address -> attached shmid
    excl,             \* history: outcome of the exclusive shmget of the last Initialize
    inits,            \* history: successful pthread_mutex_init calls, per segment
    lockok,           \* history: what the Lock() of the cycle in progress returned
    lockinit,         \* history: whether the guard was initialized when that Lock() ran
    storing,          \* the reading clock_gettime is storing into the slot
    clock,            \* CLOCK_MONOTONIC, as last observed
    written,          \* history: the timestamps of the finished slot writes
    peer_wakeup,      \* oscillator local (gsync.cc:61)
    prev_peer_wakeup, \* oscillator local (gsync.cc:63)
    lastread,         \* history: the peer timestamp copied on the preceding cycle
    invoked,          \* history: which wakeup formula the last decision used
    sync,             \* the KuramotoSync object of the process computing wakeups
    kConvFactor,      \* the function-local statics of NanoToRad and RadToNano
    args,             \* the timestamps a wakeup formula is called with
    new_wakeup,       \* what the wakeup formula returned
    called,           \* history: the wakeup formula that returned new_wakeup
    alone,            \* history: what the same call returns as a process's first call
    at,               \* where each program is in its event loop
    exit_gtimer,      \* the exit flag of each process (gtimer.cc:20, gsync.cc:16)
    events,           \* WaitForEdge local (gpio.cc:182)
    success,          \* WaitForEdge local (gpio.cc:183), and what the call returned
    ready,            \* the epoll ready list holds the value file of the line
    intr,             \* a signal handler ran while the process was blocked in a call
    edges,            \* history: edges on the line since WaitForEdge registered it
    exit_code,        \* what main returned, -1 while the process runs
    gpio,             \* the sysfs line of each program's Gpio object
    did,              \* history: the last Gpio method called, and the line before it
    fds,              \* the descriptors WaitForEdge calls have left open in the recorder
    expected_wakeup,  \* oscillator local (gsync.cc:59)
    actual_wakeup,    \* oscillator local (gsync.cc:60)
    until,            \* the instant the oscillator's clock_nanosleep was given
    seed,             \* history: the time captured before the oscillator's loop
    computed,         \* history: the new_wakeup of the preceding cycle
    cycles            \* history: the cycles the oscillator has started

\* the shared slot and the two programs using it
slotVars == <<pc, h, errno, ret, shm, maps, excl, inits, lockok, lockinit, storing,
              clock, written, peer_wakeup, prev_peer_wakeup, lastread, invoked>>
\* the wakeup computation
syncVars == <<sync, kConvFactor, args, new_wakeup, called, alone>>

\* the two event loops
loopVars == <<at, exit_gtimer, events, success, ready, intr, edges, exit_code>>

\* the lines and the recorder's descriptor table
gpioVars == <<gpio, did, fds>>
\* the timestamps of the oscillator's cycle
cycleVars == <<expected_wakeup, actual_wakeup, until, seed, computed, cycles>>
extVars == <<gpioVars, cycleVars>>

vars == <<slotVars, syncVars, loopVars, extVars>>

shmVars  == <<shm, maps, inits>>
lockVars == <<lockok, lockinit>>
recVars  == <<storing, clock, written>>
oscVars  == <<peer_wakeup, prev_peer_wakeup, lastread, invoked>>

----------------------------------------------------------------------------
(* Bounds of the model. *)

\* shmids the kernel can hand out before shmget fails with ENOSPC
MaxSegs == 2
\* attachments one address space holds before shmat fails with ENOMEM
MaxMaps == 2
\* largest reading of the monotonic clock
MaxClock == 2

Procs == {"rec", "osc"}
\* the positive key both programs are started with
Key == 1
\* the keys Initialize is called with
KeyInputs == {-1, 0, Key}
\* the owner field of a guard nobody holds, and of one whose holder has died
NoProc == "none"
DeadProc == "dead"

\* timespec (time.h)
Ts(s, n) == [tv_sec |-> s, tv_nsec |-> n]
empty_ts == Ts(0, 0)
\* no timestamp: before the oscillator's first read
NoTs == Ts(-1, -1)
\* the timespec clock_gettime stores for reading t of the clock: readings are
\* strictly increasing in both fields, so a mix of two readings is no reading
ClockTs(t) == Ts(t, t)

----------------------------------------------------------------------------
(* The kernel: System V shared memory as Linux implements it. *)

Shmids == 1..MaxSegs
Addrs == 1..MaxMaps

\* the bytes of a guard that never went through pthread_mutex_init, or that
\* pthread_mutex_init has just set up: nobody holds it
Guard(init) == [init |-> init, owner |-> NoProc]

\* a shmid the kernel has not handed out yet, and one whose segment is destroyed
\* (shmids are not handed out twice)
FreeSeg ==
    [st |-> "free", key |-> 0, nattch |-> 0, dest |-> FALSE,
     data |-> empty_ts, lock |-> Guard(FALSE)]
GoneSeg == [FreeSeg EXCEPT !.st = "gone"]

\* a segment as shmget creates it: zero filled, so value is (0,0) and the guard's
\* bytes have never been through pthread_mutex_init
NewSeg(key) == [FreeSeg EXCEPT !.st = "live", !.key = key]

\* the segments a key names. IPC_RMID makes the key of a segment that is still
\* attached private, so a segment marked for removal is not found by its key
Lookup(segs, key) == {i \in Shmids : segs[i].st = "live" /\ segs[i].key = key}

FreeIds(segs) == {i \in Shmids : segs[i].st = "free"}
Min(S) == CHOOSE x \in S : \A y \in S : x <= y

\* shmget(key, size, IPC_CREAT | IPC_EXCL | 0666) and shmget(key, size, IPC_CREAT | 0666)
shmget(segs, key, exclusive) ==
    IF Lookup(segs, key) # {}
    THEN IF exclusive
         THEN [segs |-> segs, id |-> -1, err |-> "EEXIST", created |-> FALSE]
         ELSE [segs |-> segs, id |-> Min(Lookup(segs, key)), err |-> "0", created |-> FALSE]
    ELSE IF FreeIds(segs) = {}
         THEN [segs |-> segs, id |-> -1, err |-> "ENOSPC", created |-> FALSE]
         ELSE [segs |-> [segs EXCEPT ![Min(FreeIds(segs))] = NewSeg(key)],
               id |-> Min(FreeIds(segs)), err |-> "0", created |-> TRUE]

\* a segment that is marked for removal is destroyed when nobody is attached
Reap(seg) == IF seg.dest /\ seg.nattch = 0 THEN GoneSeg ELSE seg

\* the kernel's side of shmat, shmdt and shmctl(IPC_RMID) on one segment
KAttach(segs, id) == [segs EXCEPT ![id].nattch = @ + 1]
KDetach(segs, id) == [segs EXCEPT ![id] = Reap([@ EXCEPT !.nattch = @ - 1])]
KRmid(segs, id) == [segs EXCEPT ![id] = Reap([@ EXCEPT !.dest = TRUE, !.key = 0])]

ValidId(segs, id) == id \in Shmids /\ segs[id].st = "live"

\* the kernel detaches every attachment of a process that ends
RECURSIVE KDetachAll(_, _, _)
KDetachAll(segs, m, as) ==
    IF as = {} THEN segs
    ELSE LET a == Min(as)
         IN KDetachAll(IF m[a] = 0 THEN segs ELSE KDetach(segs, m[a]), m, as \ {a})

----------------------------------------------------------------------------
(* IpShMem: the handle, Initialize and Shutdown (shmem.hpp). *)

\* IpShMem(): the constructor's member initializers. data_ is an address of the
\* process, 0 for nullptr
NewHandle == [is_owner_ |-> TRUE, key_ |-> 0, id_ |-> 0, data_ |-> 0]

\* what Shutdown leaves in the handle
ClosedHandle == [is_owner_ |-> FALSE, key_ |-> 0, id_ |-> 0, data_ |-> 0]

\* the segment a handle's data_ points into, 0 when it points into none
SegOf(p) == IF h[p].data_ = 0 THEN 0 ELSE maps[p][h[p].data_]

FreeAddrs(p) == {a \in Addrs : maps[p][a] = 0}

\* a weaker key test, for comparison: the key 0 is let through
KeyOk_zero(shmkey) == shmkey >= 0

\* if (shmkey <= 0) return nullptr;
KeyOk(shmkey) == shmkey > 0

\* if (EEXIST == errno)
SegmentExists(e) == e = "EEXIST"

\* if (is_owner_): the shared memory owner must initialize the mutex
OwnerInitsGuard(hd) == hd.is_owner_

\* for comparison: a Shutdown that marks the segment whatever the flag
OwnerRemoves_always(hd) == TRUE

\* if (is_owner_): mark the segment for destruction
OwnerRemoves(hd) == hd.is_owner_

\* return nullptr / return data_ from Initialize
Return(p, value) ==
    /\ pc' = [pc EXCEPT ![p] = "rest"]
    /\ ret' = [ret EXCEPT ![p] = value]

\* Initialize(shmkey) up to its first system call
Initialize(p, shmkey) ==
    /\ pc[p] = "rest"
    /\ IF ~KeyOk(shmkey)
       THEN /\ Return(p, "nullptr")
            /\ UNCHANGED <<h, excl>>
       ELSE /\ h' = [h EXCEPT ![p].key_ = shmkey]
            /\ pc' = [pc EXCEPT ![p] = "shmget_excl"]
            /\ ret' = [ret EXCEPT ![p] = "none"]
            /\ excl' = [excl EXCEPT ![p] = "none"]
    /\ UNCHANGED <<errno, shmVars, lockVars, recVars, oscVars>>

\* id_ = shmget(key_, ..., IPC_CREAT | IPC_EXCL | 0666), the errno test and the
\* id_ test when the segment is not taken to exist
ShmgetExcl(p) ==
    /\ pc[p] = "shmget_excl"
    /\ LET r == shmget(shm, h[p].key_, TRUE)
           e == IF r.id < 0 THEN r.err ELSE errno[p]
       IN /\ shm' = r.segs
          /\ errno' = [errno EXCEPT ![p] = e]
          /\ excl' = [excl EXCEPT ![p] =
                        IF r.created THEN "created"
                        ELSE IF r.err = "EEXIST" THEN "existed" ELSE "failed"]
          /\ IF SegmentExists(e)
             THEN /\ h' = [h EXCEPT ![p].id_ = r.id, ![p].is_owner_ = FALSE]
                  /\ pc' = [pc EXCEPT ![p] = "shmget"]
                  /\ UNCHANGED ret
             ELSE /\ h' = [h EXCEPT ![p].id_ = r.id]
                  /\ IF r.id < 0
                     THEN Return(p, "nullptr")
                     ELSE /\ pc' = [pc EXCEPT ![p] = "shmat"]
                          /\ UNCHANGED ret
    /\ UNCHANGED <<maps, inits, lockVars, recVars, oscVars>>

\* id_ = shmget(key_, ..., IPC_CREAT | 0666) and the id_ test
ShmgetAttach(p) ==
    /\ pc[p] = "shmget"
    /\ LET r == shmget(shm, h[p].key_, FALSE)
       IN /\ shm' = r.segs
          /\ errno' = [errno EXCEPT ![p] = IF r.id < 0 THEN r.err ELSE @]
          /\ h' = [h EXCEPT ![p].id_ = r.id]
          /\ IF r.id < 0
             THEN Return(p, "nullptr")
             ELSE /\ pc' = [pc EXCEPT ![p] = "shmat"]
                  /\ UNCHANGED ret
    /\ UNCHANGED <<maps, inits, excl, lockVars, recVars, oscVars>>

\* the process ends (how: "exited" or "crashed"): the kernel detaches its
\* attachments, and a guard it holds stays held
Die(p, how) ==
    /\ pc' = [pc EXCEPT ![p] = how]
    /\ shm' = [i \in Shmids |->
                 LET s == KDetachAll(shm, maps[p], Addrs)[i]
                 IN IF s.lock.owner = p THEN [s EXCEPT !.lock.owner = DeadProc] ELSE s]
    /\ maps' = [maps EXCEPT ![p] = [a \in Addrs |-> 0]]

\* shm = shmat(id_, nullptr, 0), the test "-1 == *shm", data_ = shm and the
\* is_owner_ test. When shmat fails shm is (void*)-1 and *shm reads an unmapped
\* address: the process is killed, or the read yields some int
ShmatFailOutcomes == {"SIGSEGV", "reads -1"}

Shmat(p) ==
    /\ pc[p] = "shmat"
    /\ IF ValidId(shm, h[p].id_) /\ FreeAddrs(p) # {}
       THEN LET a == Min(FreeAddrs(p))
            IN /\ shm' = KAttach(shm, h[p].id_)
               /\ maps' = [maps EXCEPT ![p][a] = h[p].id_]
               /\ UNCHANGED errno
               /\ IF shm[h[p].id_].data.tv_sec = -1
                  THEN /\ Return(p, "nullptr")
                       /\ UNCHANGED h
                  ELSE /\ h' = [h EXCEPT ![p].data_ = a]
                       /\ IF OwnerInitsGuard(h[p])
                          THEN /\ pc' = [pc EXCEPT ![p] = "mutex_init"]
                               /\ UNCHANGED ret
                          ELSE Return(p, "data")
       ELSE /\ errno' = [errno EXCEPT ![p] =
                           IF ValidId(shm, h[p].id_) THEN "ENOMEM" ELSE "EINVAL"]
            /\ \E o \in ShmatFailOutcomes :
                 IF o = "SIGSEGV"
                 THEN /\ Die(p, "crashed")
                      /\ UNCHANGED <<h, ret>>
                 ELSE /\ Return(p, "nullptr")
                      /\ UNCHANGED <<h, shm, maps>>
    /\ UNCHANGED <<inits, excl, lockVars, recVars, oscVars>>

\* pthread_mutex_init(&data_->lock, &mtx_attr) and the return that follows it
MutexInit(p) ==
    /\ pc[p] = "mutex_init"
    /\ \E ok \in BOOLEAN :
         IF ok
         THEN /\ shm' = [shm EXCEPT ![SegOf(p)].lock = Guard(TRUE)]
              /\ inits' = [inits EXCEPT ![SegOf(p)] = IF @ < 2 THEN @ + 1 ELSE @]
              /\ Return(p, "data")
         ELSE /\ Return(p, "nullptr")
              /\ UNCHANGED <<shm, inits>>
    /\ UNCHANGED <<h, errno, maps, excl, lockVars, recVars, oscVars>>

\* Shutdown() up to shmctl: shmdt(data_), and the rest of the function when
\* the handle is not the owner
Shutdown(p) ==
    /\ pc[p] = "rest"
    /\ ret' = [ret EXCEPT ![p] = "none"]
    /\ excl' = [excl EXCEPT ![p] = "none"]
    /\ IF SegOf(p) = 0
       THEN /\ errno' = [errno EXCEPT ![p] = "EINVAL"]
            /\ UNCHANGED <<pc, h, shm, maps>>
       ELSE /\ shm' = KDetach(shm, SegOf(p))
            /\ maps' = [maps EXCEPT ![p][h[p].data_] = 0]
            /\ UNCHANGED errno
            /\ IF OwnerRemoves(h[p])
               THEN /\ pc' = [pc EXCEPT ![p] = "shmctl"]
                    /\ UNCHANGED h
               ELSE /\ h' = [h EXCEPT ![p] = ClosedHandle]
                    /\ UNCHANGED pc
    /\ UNCHANGED <<inits, lockVars, recVars, oscVars>>

\* shmctl(id_, IPC_RMID, NULL) and the rest of Shutdown
ShmctlRmid(p) ==
    /\ pc[p] = "shmctl"
    /\ pc' = [pc EXCEPT ![p] = "rest"]
    /\ IF ValidId(shm, h[p].id_)
       THEN /\ shm' = KRmid(shm, h[p].id_)
            /\ h' = [h EXCEPT ![p] = ClosedHandle]
            /\ UNCHANGED errno
       ELSE /\ errno' = [errno EXCEPT ![p] = "EINVAL"]
            /\ UNCHANGED <<shm, h>>
    /\ UNCHANGED <<ret, maps, inits, excl, lockVars, recVars, oscVars>>

----------------------------------------------------------------------------
(* IpShMemData: Lock and Unlock on the guard (shmem.hpp:26-28). *)

\* The outcomes of pthread_mutex_lock for process p: the result Lock() returns
\* and the guard afterwards; no outcome means the call blocks. An initialized
\* guard is error checking: it is acquired when free, the call blocks while
\* another process holds it, and fails (EDEADLK) when the caller holds it. A
\* guard that never went through pthread_mutex_init is all zero bytes; locking
\* it is undefined: it acts as a default mutex or the call fails (EINVAL).
LockOutcomes(g, p) ==
    IF g.init
    THEN IF g.owner = NoProc THEN {[ok |-> TRUE, lock |-> [g EXCEPT !.owner = p]]}
         ELSE IF g.owner = p THEN {[ok |-> FALSE, lock |-> g]}
         ELSE {}
    ELSE {[ok |-> FALSE, lock |-> g]} \cup
         (IF g.owner = NoProc THEN {[ok |-> TRUE, lock |-> [g EXCEPT !.owner = p]]} ELSE {})

\* for comparison: an unlock that leaves the guard held
UnlockOutcomes_held(g, p) == {[ok |-> FALSE, lock |-> g]}

\* The outcomes of pthread_mutex_unlock: an initialized guard is released by its
\* holder, and the call fails (EPERM) for anyone else; on zero bytes the guard is
\* released whoever holds it, or the call fails.
UnlockOutcomes(g, p) ==
    IF g.init
    THEN IF g.owner = p THEN {[ok |-> TRUE, lock |-> [g EXCEPT !.owner = NoProc]]}
         ELSE {[ok |-> FALSE, lock |-> g]}
    ELSE {[ok |-> TRUE, lock |-> [g EXCEPT !.owner = NoProc]], [ok |-> FALSE, lock |-> g]}

\* data->Lock(); the result is discarded
Lock(p, next) ==
    /\ \E o \in LockOutcomes(shm[SegOf(p)].lock, p) :
         /\ shm' = [shm EXCEPT ![SegOf(p)].lock = o.lock]
         /\ lockok' = [lockok EXCEPT ![p] = IF o.ok THEN "yes" ELSE "no"]
    /\ lockinit' = [lockinit EXCEPT ![p] = shm[SegOf(p)].lock.init]
    /\ pc' = [pc EXCEPT ![p] = next]

\* data->Unlock(); the result is discarded
Unlock(p, next) ==
    /\ \E o \in UnlockOutcomes(shm[SegOf(p)].lock, p) :
         shm' = [shm EXCEPT ![SegOf(p)].lock = o.lock]
    /\ lockok' = [lockok EXCEPT ![p] = "none"]
    /\ lockinit' = [lockinit EXCEPT ![p] = TRUE]
    /\ pc' = [pc EXCEPT ![p] = next]

----------------------------------------------------------------------------
(* The recorder's slot write (gtimer.cc RunEventLoop). *)

\* the process uses the pointer its Initialize returned
HasSlot(p) == pc[p] = "rest" /\ ret[p] = "data"

\* runtime_shmem->Lock();
RecLock ==
    /\ HasSlot("rec")
    /\ Lock("rec", "store_sec")
    /\ UNCHANGED <<h, errno, ret, maps, inits, excl, recVars, oscVars>>

\* clock_gettime(CLOCK_MONOTONIC, &runtime_shmem->data): the clock is read and
\* tv_sec is stored
RecStoreSec ==
    /\ pc["rec"] = "store_sec"
    /\ \E t \in (IF clock = 0 THEN 1 ELSE clock)..MaxClock :
         /\ clock' = t
         /\ storing' = ClockTs(t)
         /\ shm' = [shm EXCEPT ![SegOf("rec")].data.tv_sec = ClockTs(t).tv_sec]
    /\ pc' = [pc EXCEPT !["rec"] = "store_nsec"]
    /\ UNCHANGED <<h, errno, ret, maps, inits, excl, lockVars, written, oscVars>>

\* clock_gettime, continued: tv_nsec is stored
RecStoreNsec ==
    /\ pc["rec"] = "store_nsec"
    /\ shm' = [shm EXCEPT ![SegOf("rec")].data.tv_nsec = storing.tv_nsec]
    /\ written' = written \cup {storing}
    /\ pc' = [pc EXCEPT !["rec"] = "rec_unlock"]
    /\ UNCHANGED <<h, errno, ret, maps, inits, excl, lockVars, storing, clock, oscVars>>

\* runtime_shmem->Unlock();
RecUnlock ==
    /\ pc["rec"] = "rec_unlock"
    /\ Unlock("rec", "rest")
    /\ UNCHANGED <<h, errno, ret, maps, inits, excl, recVars, oscVars>>

----------------------------------------------------------------------------
(* The oscillator's slot read and wakeup decision (gsync.cc RunEventLoop). *)

TsEqual(a, b) == (a.tv_sec = b.tv_sec) /\ (a.tv_nsec = b.tv_nsec)

\* for comparison: only the (0,0) sentinel counts, staleness is not tested
PeerSilent_sentinelOnly(prev, peer) == TsEqual(empty_ts, peer)

\* if (TsEqual(empty_ts, peer_wakeup) || TsEqual(prev_peer_wakeup, peer_wakeup))
PeerSilent(prev, peer) == TsEqual(empty_ts, peer) \/ TsEqual(prev, peer)

\* prev_peer_wakeup = peer_wakeup;
RememberPeer(prev, peer) == peer

\* peer_runtime->Lock();
OscLock ==
    /\ HasSlot("osc")
    /\ Lock("osc", "load_sec")
    /\ lastread' = IF invoked = "none" THEN NoTs ELSE peer_wakeup
    /\ UNCHANGED <<h, errno, ret, maps, inits, excl, recVars,
                   peer_wakeup, prev_peer_wakeup, invoked>>

\* for comparison: a copy that also clears the slot
OscLoadSec_clears ==
    /\ pc["osc"] = "load_sec"
    /\ peer_wakeup' = [peer_wakeup EXCEPT !.tv_sec = shm[SegOf("osc")].data.tv_sec]
    /\ shm' = [shm EXCEPT ![SegOf("osc")].data.tv_sec = 0]
    /\ pc' = [pc EXCEPT !["osc"] = "load_nsec"]
    /\ UNCHANGED <<h, errno, ret, maps, inits, excl, lockVars, recVars,
                   prev_peer_wakeup, lastread, invoked>>

\* peer_wakeup = peer_runtime->data: tv_sec is copied
OscLoadSec ==
    /\ pc["osc"] = "load_sec"
    /\ peer_wakeup' = [peer_wakeup EXCEPT !.tv_sec = shm[SegOf("osc")].data.tv_sec]
    /\ pc' = [pc EXCEPT !["osc"] = "load_nsec"]
    /\ UNCHANGED <<h, errno, ret, shmVars, excl, lockVars, recVars,
                   prev_peer_wakeup, lastread, invoked>>

\* peer_wakeup = peer_runtime->data, continued: tv_nsec is copied
OscLoadNsec ==
    /\ pc["osc"] = "load_nsec"
    /\ peer_wakeup' = [peer_wakeup EXCEPT !.tv_nsec = shm[SegOf("osc")].data.tv_nsec]
    /\ pc' = [pc EXCEPT !["osc"] = "osc_unlock"]
    /\ UNCHANGED <<h, errno, ret, shmVars, excl, lockVars, recVars,
                   prev_peer_wakeup, lastread, invoked>>

\* peer_runtime->Unlock();
OscUnlock ==
    /\ pc["osc"] = "osc_unlock"
    /\ Unlock("osc", "decide")
    /\ UNCHANGED <<h, errno, ret, maps, inits, excl, recVars, oscVars>>

\* the choice of the wakeup formula, and prev_peer_wakeup = peer_wakeup
OscDecide ==
    /\ pc["osc"] = "decide"
    /\ invoked' = IF PeerSilent(prev_peer_wakeup, peer_wakeup)
                  THEN "SetWakeupUsingBaseFreq" ELSE "ComputeNewWakeup"
    /\ prev_peer_wakeup' = RememberPeer(prev_peer_wakeup, peer_wakeup)
    /\ pc' = [pc EXCEPT !["osc"] = "rest"]
    /\ UNCHANGED <<h, errno, ret, shmVars, excl, lockVars, recVars, peer_wakeup, lastread>>

----------------------------------------------------------------------------
(* Processes end and are launched again. *)

\* the process returns from main or is killed while between two calls
Exit(p) ==
    /\ pc[p] = "rest"
    /\ Die(p, "exited")
    /\ UNCHANGED <<h, errno, ret, inits, excl, lockVars, recVars, oscVars>>

\* the program is started: a new process with a newly constructed handle
Launch(p) ==
    /\ pc[p] \in {"exited", "crashed"}
    /\ pc' = [pc EXCEPT ![p] = "rest"]
    /\ h' = [h EXCEPT ![p] = NewHandle]
    /\ errno' = [errno EXCEPT ![p] = "0"]
    /\ ret' = [ret EXCEPT ![p] = "none"]
    /\ excl' = [excl EXCEPT ![p] = "none"]
    /\ IF p = "osc"
       THEN /\ peer_wakeup' = empty_ts
            /\ prev_peer_wakeup' = empty_ts
            /\ lastread' = NoTs
            /\ invoked' = "none"
       ELSE UNCHANGED oscVars
    /\ UNCHANGED <<shmVars, lockVars, recVars>>

----------------------------------------------------------------------------
(* Arithmetic on doubles.                                                   *)
(*                                                                          *)
(* A natural number of any size is the sequence of its digits in base       *)
(* LimbBase, least significant first and without leading zeros: such        *)
(* numbers hold the 53-bit significands of doubles and the products and     *)
(* quotients of two of them.  A double (IEEE 754 binary64, round to         *)
(* nearest, ties to even) is its sign sg, its significand m (zero, or 53    *)
(* bits with the top one set) and its exponent e: its value is              *)
(* (-1)^sg * m * 2^e.  The values the programs compute are far from the     *)
(* subnormal and the overflow range.                                        *)
(*                                                                          *)
(* The operators use one another many times over; each is one case of the   *)
(* recursive operator Arith, which TLC expands once.  The digits of a sum,  *)
(* a difference and a shift are given one by one rather than from the least *)
(* significant up, which keeps the evaluation shallow.                      *)

LimbBits == 15
LimbBase == 2^LimbBits
MantBits == 53

Pow2(k) == 2^k
Zeros(n) == [i \in 1..n |-> 0]
Limb(a, i) == IF i >= 1 /\ i <= Len(a) THEN a[i] ELSE 0
Largest(S) == CHOOSE i \in S : \A j \in S : j <= i

\* the number of bits of a digit
BitLenInt(n) == Cardinality({k \in 0..(LimbBits - 1) : Pow2(k) <= n})

\* the number of bits of a
BitLen(a) == IF a = <<>> THEN 0 ELSE LimbBits * (Len(a) - 1) + BitLenInt(a[Len(a)])

\* bit i of a, bit 0 the least significant
Bit(a, i) == (Limb(a, (i \div LimbBits) + 1) \div Pow2(i % LimbBits)) % 2

\* the carry into digit i of a + b: some digit below i overflows, and every
\* digit between the two passes the carry on
Carry(a, b, i) ==
    IF \E j \in 1..(i - 1) :
          /\ Limb(a, j) + Limb(b, j) >= LimbBase
          /\ \A k \in (j + 1)..(i - 1) : Limb(a, k) + Limb(b, k) = LimbBase - 1
    THEN 1 ELSE 0

\* the borrow out of digit i of a - b
Borrow(a, b, i) ==
    IF \E j \in 1..(i - 1) :
          /\ Limb(a, j) < Limb(b, j)
          /\ \A k \in (j + 1)..(i - 1) : Limb(a, k) = Limb(b, k)
    THEN 1 ELSE 0

\* a < b
BigLess(a, b) ==
    IF Len(a) # Len(b) THEN Len(a) < Len(b)
    ELSE \E i \in 1..Len(a) : a[i] < b[i] /\ \A k \in (i + 1)..Len(a) : a[k] = b[k]

Dbl(sg, m, e) == [sg |-> sg, m |-> m, e |-> e]
DblZero == Dbl(0, <<>>, 0)
DblNeg(x) == IF x.m = <<>> THEN x ELSE [x EXCEPT !.sg = 1 - x.sg]
DblAbs(x) == [x EXCEPT !.sg = 0]

RECURSIVE Arith(_, _, _, _, _)

\* a without leading zero digits
BigTrim(a) == Arith("BigTrim", a, 0, 0, 0)
\* the integer n >= 0 as digits, and back
BigOf(n) == Arith("BigOf", n, 0, 0, 0)
BigToInt(a) == Arith("BigToInt", a, 0, 0, 0)
\* a + b
BigAdd(a, b) == Arith("BigAdd", a, b, 0, 0)
\* a - b, for a >= b
BigSub(a, b) == Arith("BigSub", a, b, 0, 0)
\* a * d, for a digit d
BigMulLimb(a, d) == Arith("BigMulLimb", a, d, 0, 0)
\* a * 2^k and a \div 2^k
BigShl(a, k) == Arith("BigShl", a, k, 0, 0)
BigShr(a, k) == Arith("BigShr", a, k, 0, 0)
\* a * b: st.acc is a times the digits above st.j of b
BigMulFrom(a, b, st) == Arith("BigMulFrom", a, b, st, 0)
BigMul(a, b) == BigMulFrom(a, b, [j |-> Len(b), acc |-> <<>>])
\* Long division, digit by digit (Knuth's algorithm D). BigDigit(r, d) is the
\* digit q with q * d <= r < (q + 1) * d, for r < d * LimbBase and a divisor d
\* whose top digit is at least LimbBase \div 2: the quotient of the top digits,
\* lowered while it is too large. BigDivStep brings one more digit of the
\* dividend down to the quotient st.q and the remainder st.r of the digits above
\* it, and BigDivModTo does so for the digits st.i, st.i - 1, ..., 1 of n.
BigFit(r, d, qhat) == Arith("BigFit", r, d, qhat, 0)
BigDigit(r, d) == Arith("BigDigit", r, d, 0, 0)
BigDivStep(digit, d, st) == Arith("BigDivStep", digit, d, st, 0)
BigDivModTo(n, d, st) == Arith("BigDivModTo", n, d, st, 0)
\* quotient and remainder of n by d, for d > 0: both are shifted so that the top
\* digit of d is at least LimbBase \div 2, which leaves the quotient as it is
BigDivMod(n, d) == Arith("BigDivMod", n, d, 0, 0)

\* the double nearest to (-1)^sg * (m + s) * 2^e, where s is 0 or, when sticky,
\* some amount strictly between 0 and 1
DblRound(sg, m, e, sticky) == Arith("DblRound", <<sg, sticky>>, m, e, BitLen(m))
\* static_cast<double>(n) of an integer
DblOfInt(n) == DblRound(IF n < 0 THEN 1 ELSE 0, BigOf(IF n < 0 THEN -n ELSE n), 0, FALSE)
\* x * y
DblMul(x, y) == Arith("DblMul", x, y, 0, 0)
\* x / y, for y # 0
DblDiv(x, y) == Arith("DblDiv", x, y, 0, 0)
\* x + y and x - y
DblAdd(x, y) == Arith("DblAdd", x, y, 0, 0)
DblSub(x, y) == DblAdd(x, DblNeg(y))
\* static_cast<long>(x): the integer part, toward zero
DblToLong(x) == Arith("DblToLong", x, 0, 0, 0)
\* the integer nearest to x
DblNearest(x) == Arith("DblNearest", x, 0, 0, 0)

Arith(op, a, b, c, d) ==
    CASE op = "BigTrim" ->
           IF \A i \in 1..Len(a) : a[i] = 0 THEN <<>>
           ELSE SubSeq(a, 1, Largest({i \in 1..Len(a) : a[i] # 0}))
      [] op = "BigOf" ->
           \* an int has three digits
           BigTrim(<<a % LimbBase, (a \div LimbBase) % LimbBase,
                     a \div (LimbBase * LimbBase)>>)
      [] op = "BigToInt" ->
           Limb(a, 1) + LimbBase * Limb(a, 2) + LimbBase * LimbBase * Limb(a, 3)
      [] op = "BigAdd" ->
           BigTrim([i \in 1..((IF Len(a) > Len(b) THEN Len(a) ELSE Len(b)) + 1) |->
                       (Limb(a, i) + Limb(b, i) + Carry(a, b, i)) % LimbBase])
      [] op = "BigSub" ->
           BigTrim([i \in 1..Len(a) |->
                       (Limb(a, i) - Limb(b, i) - Borrow(a, b, i) + LimbBase) % LimbBase])
      [] op = "BigMulLimb" ->
           \* the low digits of the products, plus their high digits one place up
           BigAdd([i \in 1..Len(a) |-> (a[i] * b) % LimbBase],
                  <<0>> \o [i \in 1..Len(a) |-> (a[i] * b) \div LimbBase])
      [] op = "BigShl" ->
           BigTrim(Zeros(b \div LimbBits)
                   \o [i \in 1..(Len(a) + 1) |->
                          (Limb(a, i) % Pow2(LimbBits - (b % LimbBits))) * Pow2(b % LimbBits)
                          + (Limb(a, i - 1) \div Pow2(LimbBits - (b % LimbBits)))])
      [] op = "BigShr" ->
           IF b \div LimbBits >= Len(a) THEN <<>>
           ELSE BigTrim([i \in 1..(Len(a) - (b \div LimbBits)) |->
                           (Limb(a, i + (b \div LimbBits)) \div Pow2(b % LimbBits))
                           + (Limb(a, i + (b \div LimbBits) + 1) % Pow2(b % LimbBits))
                             * Pow2(LimbBits - (b % LimbBits))])
      [] op = "BigMulFrom" ->
           IF c.j = 0 THEN c.acc
           ELSE BigMulFrom(a, b, [j   |-> c.j - 1,
                                  acc |-> BigAdd(BigMulLimb(a, b[c.j]),
                                                 BigShl(c.acc, LimbBits))])
      [] op = "BigFit" ->
           \* r is a, the divisor is b, the estimate is c
           IF BigLess(a, BigMulLimb(b, c)) THEN BigFit(a, b, c - 1) ELSE c
      [] op = "BigDigit" ->
           \* r is a, the divisor is b
           IF Len(a) < Len(b) THEN 0
           ELSE LET top == IF Len(a) > Len(b) THEN a[Len(a)] * LimbBase + a[Len(a) - 1]
                           ELSE a[Len(a)]
                    est == top \div b[Len(b)]
                IN  BigFit(a, b, IF est >= LimbBase THEN LimbBase - 1 ELSE est)
      [] op = "BigDivStep" ->
           \* the digit is a, the divisor is b, the state is c
           LET r1 == BigTrim(<<a>> \o c.r)
               dg == BigDigit(r1, b)
           IN  [i |-> c.i - 1,
                q |-> BigTrim(<<dg>> \o c.q),
                r |-> BigSub(r1, BigMulLimb(b, dg))]
      [] op = "BigDivModTo" ->
           \* the dividend is a, the divisor is b, the state is c
           IF c.i = 0 THEN c ELSE BigDivModTo(a, b, BigDivStep(a[c.i], b, c))
      [] op = "BigDivMod" ->
           \* the top Len(b) - 1 digits of the dividend are less than the divisor:
           \* they are the first remainder
           LET s   == LimbBits - BitLenInt(b[Len(b)])
               n1  == BigShl(a, s)
               low == IF Len(n1) < Len(b) THEN 0 ELSE Len(n1) - (Len(b) - 1)
               res == BigDivModTo(n1, BigShl(b, s),
                                  [i |-> low, q |-> <<>>, r |-> SubSeq(n1, low + 1, Len(n1))])
           IN  [q |-> res.q, r |-> BigShr(res.r, s)]
      [] op = "DblRound" ->
           \* a is <<sg, sticky>>, m is b, e is c, and d is the number of bits of m
           IF d = 0 THEN DblZero
           ELSE IF d <= MantBits THEN Dbl(a[1], BigShl(b, MantBits - d), c - (MantBits - d))
           ELSE LET k    == d - MantBits
                    q    == BigShr(b, k)
                    rem  == BigSub(b, BigShl(q, k))
                    half == BigShl(<<1>>, k - 1)
                    up   == \/ BigLess(half, rem)
                            \/ rem = half /\ (a[2] \/ Bit(q, 0) = 1)
                    q1   == IF up THEN BigAdd(q, <<1>>) ELSE q
                IN  IF BitLen(q1) > MantBits THEN Dbl(a[1], BigShr(q1, 1), c + k + 1)
                    ELSE Dbl(a[1], q1, c + k)
      [] op = "DblMul" ->
           IF a.m = <<>> \/ b.m = <<>> THEN DblZero
           ELSE DblRound((a.sg + b.sg) % 2, BigMul(a.m, b.m), a.e + b.e, FALSE)
      [] op = "DblDiv" ->
           IF a.m = <<>> THEN DblZero
           ELSE LET qr == BigDivMod(BigShl(a.m, MantBits + 3), b.m)
                IN  DblRound((a.sg + b.sg) % 2, qr.q, a.e - b.e - (MantBits + 3),
                             qr.r # <<>>)
      [] op = "DblAdd" ->
           IF a.m = <<>> THEN b
           ELSE IF b.m = <<>> THEN a
           ELSE LET e0 == IF a.e < b.e THEN a.e ELSE b.e
                    am == BigShl(a.m, a.e - e0)
                    bm == BigShl(b.m, b.e - e0)
                IN  IF a.sg = b.sg THEN DblRound(a.sg, BigAdd(am, bm), e0, FALSE)
                    ELSE IF am = bm THEN DblZero
                    ELSE IF BigLess(am, bm) THEN DblRound(b.sg, BigSub(bm, am), e0, FALSE)
                    ELSE DblRound(a.sg, BigSub(am, bm), e0, FALSE)
      [] op = "DblToLong" ->
           LET n == IF a.e >= 0 THEN BigShl(a.m, a.e) ELSE BigShr(a.m, -(a.e))
           IN  IF a.sg = 1 THEN -(BigToInt(n)) ELSE BigToInt(n)
      [] op = "DblNearest" ->
           LET n == IF a.e >= 0 THEN BigShl(a.m, a.e + 1) ELSE BigShr(a.m, -(a.e) - 1)
               r == BigToInt(BigShr(BigAdd(n, <<1>>), 1))
           IN  IF a.sg = 1 THEN -r ELSE r

----------------------------------------------------------------------------
(* The wakeup formulas: SetWakeupUsingBaseFreq (gsync.cc) and               *)
(* KuramotoSync::ComputeNewWakeup (sync.cc).                                *)

\* gsync.cc:34 (int64_t), sync.hpp:54 (double), sync.cc:25 (int)
kSecToNano == 1000000000
\* sync.hpp:10
kNumParticipants == 2
\* gsync.cc:113
kDefaultFreqHz == 100

\* sync.hpp:55: 3.141592653589793 is the double 7074237752028440 * 2^-51
kPi == Dbl(0, <<11544, 10376, 2029, 201>>, -51)

\* std::stod of a decimal that is the quotient of two small integers
DblOfQuot(n, d) == DblDiv(DblOfInt(n), DblOfInt(d))

\* gsync.cc:114
kDefaultCouplingConst == DblOfQuot(1, 2)

\* the frequencies and coupling constants given on the command line
Frequencies == {1, 3, 50, kDefaultFreqHz, 15625}
FrequencyInputs == Frequencies \cup {0}
Couplings == {kDefaultCouplingConst, DblOfInt(20)}
CouplingInputs == Couplings \cup {DblZero}

\* the timestamps a formula is called with: all three equal (with and without a
\* carry into the seconds), the peer 7.5 ms behind and 5 ms and 7.5 ms ahead of
\* an on-time wakeup, and a wakeup 5 ms late
Wakeups(expected, actual, peer) ==
    [expected_wakeup |-> expected, actual_wakeup |-> actual, peer_wakeup |-> peer]
ArgInputs ==
    { Wakeups(Ts(5, 0), Ts(5, 0), Ts(5, 0)),
      Wakeups(Ts(4, 990000000), Ts(4, 990000000), Ts(4, 990000000)),
      Wakeups(Ts(5, 0), Ts(5, 0), Ts(4, 992500000)),
      Wakeups(Ts(5, 5000000), Ts(5, 5000000), Ts(5, 0)),
      Wakeups(Ts(5, 7500000), Ts(5, 7500000), Ts(5, 0)),
      Wakeups(Ts(5, 0), Ts(5, 5000000), Ts(5, 0)) }
NoArgs == Wakeups(NoTs, NoTs, NoTs)

\* a KuramotoSync object (sync.hpp:62-63), no object, and no object because
\* the constructor threw
KuramotoSync(frequency, coupling_constant) ==
    [made |-> "yes", frequency_ |-> frequency, coupling_constant_ |-> coupling_constant]
NoSync == [made |-> "no", frequency_ |-> 0, coupling_constant_ |-> DblZero]
Thrown == [made |-> "runtime_error", frequency_ |-> 0, coupling_constant_ |-> DblZero]

\* for comparison: a carry that leaves a nanosecond field of exactly one second
CarryNsec_above(ts) ==
    IF ts.tv_nsec > kSecToNano THEN Ts(ts.tv_sec + 1, ts.tv_nsec - kSecToNano) ELSE ts

\* gsync.cc:44-47: while (new_wakeup.tv_nsec >= kSecToNano) { tv_sec++; tv_nsec -= kSecToNano; }
RECURSIVE CarryNsec(_)
CarryNsec(ts) ==
    IF ts.tv_nsec >= kSecToNano
    THEN CarryNsec(Ts(ts.tv_sec + 1, ts.tv_nsec - kSecToNano))
    ELSE ts

\* gsync.cc:32-49
SetWakeupUsingBaseFreq(actual, frequency_hz) ==
    LET dt_nano == DblMul(DblDiv(DblOfInt(1), DblOfInt(frequency_hz)), DblOfInt(kSecToNano))
    IN  CarryNsec(Ts(actual.tv_sec, actual.tv_nsec + DblToLong(dt_nano)))

\* sync.cc:9-12
ToNano(ts) ==
    DblAdd(DblMul(DblOfInt(ts.tv_sec), DblOfInt(kSecToNano)), DblOfInt(ts.tv_nsec))

\* sync.cc:15 and sync.cc:20: the value a static kConvFactor gets when its
\* initializer runs in a call on an object of this frequency
NanoToRadFactor(frequency_) ==
    DblDiv(DblMul(DblMul(DblOfInt(2), kPi), DblOfInt(frequency_)), DblOfInt(kSecToNano))
RadToNanoFactor(frequency_) ==
    DblDiv(DblOfInt(kSecToNano), DblMul(DblMul(DblOfInt(2), kPi), DblOfInt(frequency_)))

\* a function-local static is initialized by the first call of the process that
\* reaches its declaration, and never again
NotInitialized == [initialized |-> FALSE, value |-> DblZero]
StaticInit(static, initializer) ==
    IF static.initialized THEN static ELSE [initialized |-> TRUE, value |-> initializer]

\* the two statics of a process after a call on an object of this frequency
StaticsAfterCall(statics, frequency_) ==
    [NanoToRad |-> StaticInit(statics.NanoToRad, NanoToRadFactor(frequency_)),
     RadToNano |-> StaticInit(statics.RadToNano, RadToNanoFactor(frequency_))]
NoStatics == [NanoToRad |-> NotInitialized, RadToNano |-> NotInitialized]

\* sync.cc:16 and sync.cc:21, with the statics conv of the process
NanoToRad(conv, ns) == DblMul(conv.NanoToRad.value, ns)
RadToNano(conv, rad) == DblMul(conv.RadToNano.value, rad)

\* sync.cc:24-30
RECURSIVE NormalizeTime(_)
NormalizeTime(ts) ==
    IF ts.tv_nsec >= kSecToNano
    THEN NormalizeTime(Ts(ts.tv_sec + 1, ts.tv_nsec - kSecToNano))
    ELSE ts

\* std::sin at a whole number of quarter turns: 0, 1, 0, -1, and exactly 0 at 0.
\* SinKnown(x) says x is such an argument up to the rounding of the operations
\* that computed it (within 2^-40); the calls of the model are those whose
\* argument is.
HalfPi == [kPi EXCEPT !.e = kPi.e - 1]
QuarterTurns(x) == DblNearest(DblDiv(DblAbs(x), HalfPi))
SinKnown(x) ==
    \/ x.m = <<>>
    \/ LET off == DblSub(DblAbs(x), DblMul(DblOfInt(QuarterTurns(x)), HalfPi))
       IN  off.m = <<>> \/ off.e + MantBits <= -40
Sin(x) ==
    IF x.m = <<>> THEN x
    ELSE LET v == <<0, 1, 0, -1>>[(QuarterTurns(x) % 4) + 1]
         IN  DblOfInt(IF x.sg = 1 THEN -v ELSE v)

\* sync.cc:45-54: dtheta_j - dtheta_i, the argument of std::sin
PhaseLag(conv, expected, actual, peer) ==
    LET expected_wakeup_ns == ToNano(expected)
        dtheta_i == NanoToRad(conv, DblSub(expected_wakeup_ns, ToNano(actual)))
        dtheta_j == NanoToRad(conv, DblSub(expected_wakeup_ns, ToNano(peer)))
    IN  DblSub(dtheta_j, dtheta_i)

\* sync.cc:42-72, on an object obj with the statics conv
ComputeNewWakeup(conv, obj, expected, actual, peer) ==
    LET omega_i == NanoToRad(conv, DblMul(DblDiv(DblOfInt(1), DblOfInt(obj.frequency_)),
                                          DblOfInt(kSecToNano)))
        dtheta_dt == DblAdd(omega_i,
                            DblMul(DblDiv(obj.coupling_constant_, DblOfInt(kNumParticipants)),
                                   Sin(PhaseLag(conv, expected, actual, peer))))
    IN  NormalizeTime(Ts(actual.tv_sec,
                         actual.tv_nsec + DblToLong(RadToNano(conv, dtheta_dt))))

\* sync.cc:32-40: the constructor accepts the parameters
Accepted(frequency, coupling_constant) ==
    ~(frequency <= 0) /\ ~(coupling_constant.m = <<>> \/ coupling_constant.sg = 1)

\* gsync.cc:190: gsync::KuramotoSync sync(frequency_hz, coupling_const)
Construct(frequency, coupling_constant) ==
    /\ sync # Thrown
    /\ sync' = IF Accepted(frequency, coupling_constant)
               THEN KuramotoSync(frequency, coupling_constant)
               ELSE Thrown
    /\ args' = NoArgs
    /\ new_wakeup' = NoTs
    /\ called' = "none"
    /\ alone' = NoTs
    /\ UNCHANGED <<kConvFactor, slotVars, loopVars, extVars>>

\* gsync.cc:65-76: the loop's timestamps for the cycle
TakeWakeups(w) ==
    /\ sync.made = "yes"
    /\ args' = w
    /\ new_wakeup' = NoTs
    /\ called' = "none"
    /\ alone' = NoTs
    /\ UNCHANGED <<sync, kConvFactor, slotVars, loopVars, extVars>>

\* gsync.cc:82-83
CallSetWakeupUsingBaseFreq ==
    /\ sync.made = "yes"
    /\ args # NoArgs
    /\ called = "none"
    /\ LET res == SetWakeupUsingBaseFreq(args.actual_wakeup, sync.frequency_)
       IN  new_wakeup' = res /\ alone' = res
    /\ called' = "SetWakeupUsingBaseFreq"
    /\ UNCHANGED <<sync, kConvFactor, args, slotVars, loopVars, extVars>>

\* gsync.cc:87-88: the call leaves the statics conv and returns new_wakeup;
\* alone is what the same call returns in a process whose statics this object
\* initialized (first). The calls are those whose sine is known.
CallComputeNewWakeup ==
    /\ sync.made = "yes"
    /\ args # NoArgs
    /\ called = "none"
    /\ \E conv \in {StaticsAfterCall(kConvFactor, sync.frequency_)} :
       \E first \in {StaticsAfterCall(NoStatics, sync.frequency_)} :
          /\ SinKnown(PhaseLag(conv, args.expected_wakeup, args.actual_wakeup,
                               args.peer_wakeup))
          /\ SinKnown(PhaseLag(first, args.expected_wakeup, args.actual_wakeup,
                               args.peer_wakeup))
          /\ kConvFactor' = conv
          /\ new_wakeup' = ComputeNewWakeup(conv, sync, args.expected_wakeup,
                                            args.actual_wakeup, args.peer_wakeup)
          /\ alone' = ComputeNewWakeup(first, sync, args.expected_wakeup,
                                       args.actual_wakeup, args.peer_wakeup)
    /\ called' = "ComputeNewWakeup"
    /\ UNCHANGED <<sync, args, slotVars, loopVars, extVars>>

\* the process ends (gsync.cc:193-201) and the program is started again: a new
\* process, with its statics not yet initialized
Restart ==
    /\ sync # NoSync
    /\ sync' = NoSync
    /\ kConvFactor' = NoStatics
    /\ args' = NoArgs
    /\ new_wakeup' = NoTs
    /\ called' = "none"
    /\ alone' = NoTs
    /\ UNCHANGED <<slotVars, loopVars, extVars>>

InitSync ==
    /\ sync = NoSync
    /\ kConvFactor = NoStatics
    /\ args = NoArgs
    /\ new_wakeup = NoTs
    /\ called = "none"
    /\ alone = NoTs

----------------------------------------------------------------------------
(* The sysfs GPIO lines and class Gpio (gpio.cc). *)

\* enum Value (gpio.hpp:24-27)
kLow == 0
kHigh == 1
Values == {kLow, kHigh}
\* enum class Direction and enum class Edge (gpio.hpp:18-35)
Directions == {"kInput", "kOutput"}
EdgeTypes == {"kNone", "kRising", "kFalling", "kBoth"}

\* a line as the files direction, value and edge of /sys/class/gpio/gpioN show
\* it; value is the level on the line (active_low is never set)
Line(direction, value, edge) == [direction |-> direction, value |-> value, edge |-> edge]
\* a line as the export leaves it
Exported == Line("in", kLow, "none")

\* What the kernel does with a write to the file direction: "in" makes the
\* line an input; "out" makes it an output and drives it low, also when it is
\* an output already (only "high" would start it high). Other text is
\* rejected.
WriteDirection(l, text) ==
    CASE text = "in" -> [l EXCEPT !.direction = "in"]
      [] text = "out" -> [l EXCEPT !.direction = "out", !.value = kLow]
      [] OTHER -> l

\* for comparison: a value file that takes no write
WriteValue_refused(l, text) == l

\* a write to the file value: drives an output line, and is refused (EPERM)
\* on an input line
WriteValue(l, text) ==
    IF l.direction = "out" /\ text \in {"0", "1"}
    THEN [l EXCEPT !.value = IF text = "0" THEN kLow ELSE kHigh]
    ELSE l

\* a write to the file edge: sets the interrupt trigger of an input line, and
\* is refused (EIO) when it would make an output line an interrupt source; it
\* never touches the direction
WriteEdge(l, text) ==
    IF l.direction = "out" /\ text # "none" THEN l ELSE [l EXCEPT !.edge = text]

\* a read of the file value: the level as "0" or "1"
ReadValue(l) == IF l.value = kLow THEN "0" ELSE "1"

\* gpio.cc:77-86: void Gpio::Dir(Direction dir); the result of Write is dropped
Dir(l, dir) ==
    CASE dir = "kInput" -> WriteDirection(l, "in")
      [] dir = "kOutput" -> WriteDirection(l, "out")

\* gpio.cc:93-102: void Gpio::Val(Value value)
Val(l, value) ==
    CASE value = kHigh -> WriteValue(l, "1")
      [] value = kLow -> WriteValue(l, "0")

\* gpio.cc:104-107: Value Gpio::Val()
ValOf(l) == IF ReadValue(l) = "0" THEN kLow ELSE kHigh

\* gpio.cc:109-119
ToggleOutput(l) ==
    LET out == Dir(l, "kOutput")
    IN  CASE ValOf(out) = kLow -> Val(out, kHigh)
          [] ValOf(out) = kHigh -> Val(out, kLow)

\* gpio.cc:129-144: void Gpio::EdgeType(Edge edge)
EdgeType(l, edge) ==
    CASE edge = "kNone" -> WriteEdge(l, "none")
      [] edge = "kRising" -> WriteEdge(l, "rising")
      [] edge = "kFalling" -> WriteEdge(l, "falling")
      [] edge = "kBoth" -> WriteEdge(l, "both")

\* no Gpio method was called yet
NoCall == [object |-> "none", method |-> "none", before |-> Exported]

\* what did records when a method is called on the Gpio object of p
Calling(p, method) == [object |-> p, method |-> method, before |-> gpio[p]]

CallDir(p, dir) ==
    /\ gpio' = [gpio EXCEPT ![p] = Dir(gpio[p], dir)]
    /\ did' = Calling(p, "Dir")
    /\ UNCHANGED <<fds, cycleVars, slotVars, syncVars, loopVars>>

CallVal(p, value) ==
    /\ gpio' = [gpio EXCEPT ![p] = Val(gpio[p], value)]
    /\ did' = Calling(p, "Val")
    /\ UNCHANGED <<fds, cycleVars, slotVars, syncVars, loopVars>>

CallToggleOutput(p) ==
    /\ gpio' = [gpio EXCEPT ![p] = ToggleOutput(gpio[p])]
    /\ did' = Calling(p, "ToggleOutput")
    /\ UNCHANGED <<fds, cycleVars, slotVars, syncVars, loopVars>>

CallEdgeType(p, edge) ==
    /\ gpio' = [gpio EXCEPT ![p] = EdgeType(gpio[p], edge)]
    /\ did' = Calling(p, "EdgeType")
    /\ UNCHANGED <<fds, cycleVars, slotVars, syncVars, loopVars>>

\* whatever is wired to an input line changes its level
Drive(p) ==
    /\ gpio[p].direction = "in"
    /\ gpio' = [gpio EXCEPT ![p].value = 1 - gpio[p].value]
    /\ UNCHANGED <<did, fds, cycleVars, slotVars, syncVars, loopVars>>

\* both lines exported, no descriptor left open, the oscillator's loop not
\* entered
InitExt ==
    /\ gpio = [p \in Procs |-> Exported]
    /\ did = NoCall
    /\ fds = 0
    /\ expected_wakeup = empty_ts
    /\ actual_wakeup = empty_ts
    /\ until = NoTs
    /\ seed = NoTs
    /\ computed = NoTs
    /\ cycles = 0

----------------------------------------------------------------------------
\* before a program enters its loop: the flag is clear, nothing is registered;
\* the recorder is about to make its Gpio object (gtimer.cc:126)
InitLoopVars ==
    /\ at = [p \in Procs |-> IF p = "rec" THEN "Gpio" ELSE "while"]
    /\ exit_gtimer = [p \in Procs |-> FALSE]
    /\ events = 0
    /\ success = TRUE
    /\ ready = FALSE
    /\ intr = [p \in Procs |-> FALSE]
    /\ edges = 0
    /\ exit_code = [p \in Procs |-> -1]

Init ==
    /\ pc = [p \in Procs |-> "rest"]
    /\ h = [p \in Procs |-> NewHandle]
    /\ errno = [p \in Procs |-> "0"]
    /\ ret = [p \in Procs |-> "none"]
    /\ shm = [i \in Shmids |-> FreeSeg]
    /\ maps = [p \in Procs |-> [a \in Addrs |-> 0]]
    /\ excl = [p \in Procs |-> "none"]
    /\ inits = [i \in Shmids |-> 0]
    /\ lockok = [p \in Procs |-> "none"]
    /\ lockinit = [p \in Procs |-> TRUE]
    /\ storing = empty_ts
    /\ clock = 0
    /\ written = {}
    /\ peer_wakeup = empty_ts
    /\ prev_peer_wakeup = empty_ts
    /\ lastread = NoTs
    /\ invoked = "none"
    /\ InitSync
    /\ InitLoopVars
    /\ InitExt

NextLife ==
    \/ \E p \in Procs : \E k \in KeyInputs : Initialize(p, k) /\ UNCHANGED <<syncVars, loopVars, extVars>>
    \/ \E p \in Procs : ShmgetExcl(p) /\ UNCHANGED <<syncVars, loopVars, extVars>>
    \/ \E p \in Procs : ShmgetAttach(p) /\ UNCHANGED <<syncVars, loopVars, extVars>>
    \/ \E p \in Procs : Shmat(p) /\ UNCHANGED <<syncVars, loopVars, extVars>>
    \/ \E p \in Procs : MutexInit(p) /\ UNCHANGED <<syncVars, loopVars, extVars>>
    \/ \E p \in Procs : Shutdown(p) /\ UNCHANGED <<syncVars, loopVars, extVars>>
    \/ \E p \in Procs : ShmctlRmid(p) /\ UNCHANGED <<syncVars, loopVars, extVars>>
    \/ \E p \in Procs : Exit(p) /\ UNCHANGED <<syncVars, loopVars, extVars>>
    \/ \E p \in Procs : Launch(p) /\ UNCHANGED <<syncVars, loopVars, extVars>>

SpecLife == Init /\ [][NextLife]_vars

----------------------------------------------------------------------------
(* The two programs as their main functions run them. *)

\* main has not called Initialize yet
Fresh(p) == pc[p] = "rest" /\ ret[p] = "none" /\ h[p] = NewHandle

\* gtimer.cc:116-119: the recorder opens the slot with the key given on its
\* command line
RecOpen == Fresh("rec") /\ \E k \in KeyInputs : Initialize("rec", k)

\* gsync.cc:178-181: the oscillator opens the slot with the key given on its
\* command line (section 4.2, Open: the same create-or-attach as the recorder's)
OscOpen == Fresh("osc") /\ \E k \in KeyInputs : Initialize("osc", k)

\* gtimer.cc:139-141: the recorder leaves its loop and calls Shutdown
RecShutdown == HasSlot("rec") /\ Shutdown("rec")

\* gtimer.cc:120-123, 143-146: main returns after a failed Initialize or after Shutdown
RecExit == ~Fresh("rec") /\ ret["rec"] # "data" /\ Exit("rec")

\* gsync.cc:193-201: main returns after a failed open or after its loop
OscExit == ~Fresh("osc") /\ Exit("osc")

Next ==
    \/ RecOpen /\ UNCHANGED <<syncVars, loopVars, extVars>>
    \/ OscOpen /\ UNCHANGED <<syncVars, loopVars, extVars>>
    \/ \E p \in Procs : ShmgetExcl(p) /\ UNCHANGED <<syncVars, loopVars, extVars>>
    \/ \E p \in Procs : ShmgetAttach(p) /\ UNCHANGED <<syncVars, loopVars, extVars>>
    \/ \E p \in Procs : Shmat(p) /\ UNCHANGED <<syncVars, loopVars, extVars>>
    \/ \E p \in Procs : MutexInit(p) /\ UNCHANGED <<syncVars, loopVars, extVars>>
    \/ RecShutdown /\ UNCHANGED <<syncVars, loopVars, extVars>>
    \/ ShmctlRmid("rec") /\ UNCHANGED <<syncVars, loopVars, extVars>>
    \/ RecExit /\ UNCHANGED <<syncVars, loopVars, extVars>>
    \/ OscExit /\ UNCHANGED <<syncVars, loopVars, extVars>>
    \/ \E p \in Procs : Launch(p) /\ UNCHANGED <<syncVars, loopVars, extVars>>
    \/ RecLock /\ UNCHANGED <<syncVars, loopVars, extVars>>
    \/ RecStoreSec /\ UNCHANGED <<syncVars, loopVars, extVars>>
    \/ RecStoreNsec /\ UNCHANGED <<syncVars, loopVars, extVars>>
    \/ RecUnlock /\ UNCHANGED <<syncVars, loopVars, extVars>>
    \/ OscLock /\ UNCHANGED <<syncVars, loopVars, extVars>>
    \/ OscLoadSec /\ UNCHANGED <<syncVars, loopVars, extVars>>
    \/ OscLoadNsec /\ UNCHANGED <<syncVars, loopVars, extVars>>
    \/ OscUnlock /\ UNCHANGED <<syncVars, loopVars, extVars>>
    \/ OscDecide /\ UNCHANGED <<syncVars, loopVars, extVars>>

Spec == Init /\ [][Next]_vars

----------------------------------------------------------------------------
(* The wakeup formulas on their own: objects are constructed and the        *)
(* formulas are called on them, in one process after another.               *)

NextSync ==
    \/ \E f \in FrequencyInputs : \E c \in CouplingInputs : Construct(f, c)
    \/ \E w \in ArgInputs : TakeWakeups(w)
    \/ CallSetWakeupUsingBaseFreq
    \/ CallComputeNewWakeup
    \/ Restart

SpecSync == Init /\ [][NextSync]_vars

----------------------------------------------------------------------------
(* Calls of the Gpio methods in any order. *)

NextGpio ==
    \/ \E p \in Procs : \E dir \in Directions : CallDir(p, dir)
    \/ \E p \in Procs : \E value \in Values : CallVal(p, value)
    \/ \E p \in Procs : CallToggleOutput(p)
    \/ \E p \in Procs : \E edge \in EdgeTypes : CallEdgeType(p, edge)
    \/ \E p \in Procs : Drive(p)

SpecGpio == Init /\ [][NextGpio]_vars

----------------------------------------------------------------------------
(* The two event loops: gtimer.cc RunEventLoop with Gpio::WaitForEdge, and
   gsync.cc RunEventLoop, each with its SIGINT handler. *)

\* the most edges followed during one WaitForEdge call
MaxEdges == 2
\* the descriptors the recorder can open before it reaches its limit
\* (RLIMIT_NOFILE less those in use when the loop starts)
MaxFds == 2

\* gtimer.cc:120-137, gsync.cc:178-190: both programs reach their loop after
\* the recorder created the slot and initialized its guard and the
\* oscillator attached to it
Attached ==
    /\ pc = [p \in Procs |-> "rest"]
    /\ ret = [p \in Procs |-> "data"]
    /\ h = [p \in Procs |-> [is_owner_ |-> (p = "rec"), key_ |-> Key, id_ |-> 1, data_ |-> 1]]
    /\ errno = [p \in Procs |-> IF p = "rec" THEN "0" ELSE "EEXIST"]
    /\ excl = [p \in Procs |-> IF p = "rec" THEN "created" ELSE "existed"]
    /\ shm = [i \in Shmids |->
                IF i = 1
                THEN [st |-> "live", key |-> Key, nattch |-> 2, dest |-> FALSE,
                      data |-> empty_ts, lock |-> Guard(TRUE)]
                ELSE FreeSeg]
    /\ maps = [p \in Procs |-> [a \in Addrs |-> IF a = 1 THEN 1 ELSE 0]]
    /\ inits = [i \in Shmids |-> IF i = 1 THEN 1 ELSE 0]
    /\ lockok = [p \in Procs |-> "none"]
    /\ lockinit = [p \in Procs |-> TRUE]
    /\ storing = empty_ts
    /\ clock = 0
    /\ written = {}
    /\ peer_wakeup = empty_ts
    /\ prev_peer_wakeup = empty_ts
    /\ lastread = NoTs
    /\ invoked = "none"

InitLoop == Attached /\ InitSync /\ InitLoopVars /\ InitExt

\* for comparison: a loop test that never sees the flag
KeepRunning_never(flag) == TRUE

\* while (!exit_gtimer)
KeepRunning(flag) == ~flag

\* the process is inside a call that a signal handler interrupts: epoll_wait
\* and clock_nanosleep return EINTR (the handlers are installed with
\* sa_flags = 0); pthread_mutex_lock is never interrupted
Interruptible(p) == at[p] \in {"in_epoll_wait", "clock_nanosleep"}

\* SIGINT is delivered to a running process: ExitHandler sets the flag
ExitHandler(p) ==
    /\ at[p] # "returned"
    /\ exit_gtimer' = [exit_gtimer EXCEPT ![p] = TRUE]
    /\ intr' = [intr EXCEPT ![p] = intr[p] \/ Interruptible(p)]
    /\ UNCHANGED <<at, events, success, ready, edges, exit_code, slotVars, syncVars, extVars>>

\* a rising edge on the recorder's line while WaitForEdge has the value file
\* registered: the kernel puts the file on the ready list, where it is held
\* once however many edges arrive before epoll_wait collects it
Edge ==
    /\ at["rec"] \in {"epoll_wait", "in_epoll_wait"}
    /\ edges < MaxEdges
    /\ edges' = edges + 1
    /\ ready' = TRUE
    /\ UNCHANGED <<at, exit_gtimer, events, success, intr, exit_code, slotVars, syncVars, extVars>>

\* gtimer.cc:126-135: what the set-up of the recorder's line can come to: the
\* Gpio constructor throws (nothing catches it: the process is aborted), Dir
\* or EdgeType is taken to have failed and main returns 1, or the line is set
\* up
GpioOutcomes == {"ok", "throws", "Dir fails", "EdgeType fails"}

\* gtimer.cc:126-135: Gpio runtime_gpio(kGpioNum), Dir(kInput) and
\* EdgeType(kRising); on a failure the process ends here, with the slot
\* still open
RecGpio ==
    /\ at["rec"] = "Gpio"
    /\ \E o \in GpioOutcomes :
         IF o = "ok"
         THEN /\ gpio' = [gpio EXCEPT !["rec"] = EdgeType(Dir(Exported, "kInput"), "kRising")]
              /\ did' = Calling("rec", "EdgeType")
              /\ at' = [at EXCEPT !["rec"] = "while"]
              /\ UNCHANGED <<exit_code, slotVars>>
         ELSE /\ Exit("rec")
              /\ at' = [at EXCEPT !["rec"] = "returned"]
              /\ exit_code' = [exit_code EXCEPT !["rec"] = IF o = "throws" THEN 134 ELSE 1]
              /\ UNCHANGED <<gpio, did>>
    /\ UNCHANGED <<exit_gtimer, events, success, ready, intr, edges, fds, cycleVars, syncVars>>

\* gtimer.cc:83: the recorder's loop test
RecWhile ==
    /\ at["rec"] = "while"
    /\ at' = [at EXCEPT !["rec"] = IF KeepRunning(exit_gtimer["rec"])
                                   THEN "WaitForEdge" ELSE "Shutdown"]
    /\ UNCHANGED <<exit_gtimer, events, success, ready, intr, edges, exit_code,
                   slotVars, syncVars, extVars>>

\* gpio.cc:159-183: Dir(kInput), epoll_create, open and epoll_ctl(ADD) with
\* EPOLLIN | EPOLLET | EPOLLPRI. A sysfs value file always polls readable, so
\* registering it puts it on the ready list at once. When one of the calls
\* fails WaitForEdge returns false at once, without closing what it opened.
\* A call that needs a descriptor fails when the limit is reached, and may
\* fail for other reasons.
WaitForEdgeOutcomes(room) ==
    {[opened |-> 0, registered |-> FALSE]} \cup
    (IF room >= 1 THEN {[opened |-> 1, registered |-> FALSE]} ELSE {}) \cup
    (IF room >= 2 THEN {[opened |-> 2, registered |-> FALSE],
                        [opened |-> 2, registered |-> TRUE]} ELSE {})

WaitForEdge ==
    /\ at["rec"] = "WaitForEdge"
    /\ gpio' = [gpio EXCEPT !["rec"] = Dir(gpio["rec"], "kInput")]
    /\ did' = Calling("rec", "WaitForEdge")
    /\ \E o \in WaitForEdgeOutcomes(MaxFds - fds) :
         /\ fds' = fds + o.opened
         /\ success' = o.registered
         /\ ready' = o.registered
         /\ at' = [at EXCEPT !["rec"] = IF o.registered THEN "epoll_wait" ELSE "Lock"]
    /\ events' = 0
    /\ edges' = 0
    /\ UNCHANGED <<exit_gtimer, intr, exit_code, slotVars, syncVars, cycleVars>>

\* gpio.cc:184-185: while (events <= 1), the recorder enters epoll_wait with
\* no timeout
EpollWait ==
    /\ at["rec"] = "epoll_wait"
    /\ at' = [at EXCEPT !["rec"] = "in_epoll_wait"]
    /\ UNCHANGED <<exit_gtimer, events, success, ready, intr, edges, exit_code,
                   slotVars, syncVars, extVars>>

\* gpio.cc:185-194: epoll_wait returns. It returns 1 when the file is on the
\* ready list, which takes it off the list (EPOLLET); else it blocks until a
\* handler interrupts it and returns -1 (EINTR). After the second event, or
\* after a failure, WaitForEdge closes the file and returns success.
EpollWaitReturns ==
    /\ at["rec"] = "in_epoll_wait"
    /\ ready \/ intr["rec"]
    /\ IF ready
       THEN /\ ready' = FALSE
            /\ events' = events + 1
            /\ at' = [at EXCEPT !["rec"] = IF events + 1 <= 1 THEN "epoll_wait" ELSE "Lock"]
            /\ fds' = IF events + 1 <= 1 THEN fds ELSE fds - 1
            /\ UNCHANGED success
       ELSE /\ success' = FALSE
            /\ at' = [at EXCEPT !["rec"] = "Lock"]
            /\ fds' = fds - 1
            /\ UNCHANGED <<ready, events>>
    /\ intr' = [intr EXCEPT !["rec"] = FALSE]
    /\ UNCHANGED <<exit_gtimer, edges, exit_code, gpio, did, slotVars, syncVars, cycleVars>>

\* gtimer.cc:85-88: the result of WaitForEdge is discarded and the recorder
\* goes on to runtime_shmem->Lock()
RecLoopLock ==
    /\ at["rec"] = "Lock"
    /\ RecLock
    /\ at' = [at EXCEPT !["rec"] = "locked"]
    /\ UNCHANGED <<exit_gtimer, events, success, ready, intr, edges, exit_code, syncVars, extVars>>

\* gtimer.cc:89: clock_gettime into the slot
RecLoopStore ==
    /\ at["rec"] = "locked"
    /\ RecStoreSec \/ RecStoreNsec
    /\ UNCHANGED <<loopVars, syncVars, extVars>>

\* gtimer.cc:90-91: runtime_shmem->Unlock() and back to the loop test
RecLoopUnlock ==
    /\ at["rec"] = "locked"
    /\ RecUnlock
    /\ at' = [at EXCEPT !["rec"] = "while"]
    /\ UNCHANGED <<exit_gtimer, events, success, ready, intr, edges, exit_code, syncVars, extVars>>

\* gtimer.cc:141: shmem_ctrl.Shutdown() after the loop
RecLoopShutdown ==
    /\ at["rec"] = "Shutdown"
    /\ RecShutdown \/ ShmctlRmid("rec")
    /\ UNCHANGED <<loopVars, syncVars, extVars>>

\* gtimer.cc:141-146: return 1 when Shutdown failed, else return 0
RecReturn ==
    /\ at["rec"] = "Shutdown"
    /\ RecExit
    /\ at' = [at EXCEPT !["rec"] = "returned"]
    /\ exit_code' = [exit_code EXCEPT !["rec"] = IF h["rec"] = ClosedHandle THEN 0 ELSE 1]
    /\ UNCHANGED <<exit_gtimer, events, success, ready, intr, edges, syncVars, extVars>>

\* gsync.cc:66-71: the oscillator's loop test; a cycle starts with
\* Val(kHigh) and clock_gettime(&actual_wakeup)
OscWhile ==
    /\ at["osc"] = "while"
    /\ at' = [at EXCEPT !["osc"] = IF KeepRunning(exit_gtimer["osc"])
                                   THEN "Lock" ELSE "left"]
    /\ UNCHANGED <<exit_gtimer, events, success, ready, intr, edges, exit_code,
                   slotVars, syncVars, extVars>>

\* gsync.cc:74: peer_runtime->Lock()
OscLoopLock ==
    /\ at["osc"] = "Lock"
    /\ OscLock
    /\ at' = [at EXCEPT !["osc"] = "locked"]
    /\ UNCHANGED <<exit_gtimer, events, success, ready, intr, edges, exit_code, syncVars, extVars>>

\* gsync.cc:75-76: the copy of the slot and peer_runtime->Unlock()
OscLoopLoad ==
    /\ at["osc"] = "locked"
    /\ OscLoadSec \/ OscLoadNsec \/ OscUnlock
    /\ UNCHANGED <<loopVars, syncVars, extVars>>

\* gsync.cc:78-97: the wakeup is computed, Val(kLow), and the oscillator
\* enters clock_nanosleep(TIMER_ABSTIME)
OscLoopDecide ==
    /\ at["osc"] = "locked"
    /\ OscDecide
    /\ at' = [at EXCEPT !["osc"] = "clock_nanosleep"]
    /\ UNCHANGED <<exit_gtimer, events, success, ready, intr, edges, exit_code, syncVars, extVars>>

\* gsync.cc:97-98: clock_nanosleep returns, at the wakeup time or early when
\* a handler interrupted it; its result is not looked at
NanosleepReturns ==
    /\ at["osc"] = "clock_nanosleep"
    /\ at' = [at EXCEPT !["osc"] = "while"]
    /\ intr' = [intr EXCEPT !["osc"] = FALSE]
    /\ UNCHANGED <<exit_gtimer, events, success, ready, edges, exit_code, slotVars, syncVars, extVars>>

\* gsync.cc:190-201: RunEventLoop returns, nothing was thrown and main
\* returns 0
OscReturn ==
    /\ at["osc"] = "left"
    /\ OscExit
    /\ at' = [at EXCEPT !["osc"] = "returned"]
    /\ exit_code' = [exit_code EXCEPT !["osc"] = 0]
    /\ UNCHANGED <<exit_gtimer, events, success, ready, intr, edges, syncVars, extVars>>

\* the steps of each program, and of what surrounds them
RecStep ==
    \/ RecGpio
    \/ RecWhile
    \/ WaitForEdge
    \/ EpollWait
    \/ EpollWaitReturns
    \/ RecLoopLock
    \/ RecLoopStore
    \/ RecLoopUnlock
    \/ RecLoopShutdown
    \/ RecReturn

OscStep ==
    \/ OscWhile
    \/ OscLoopLock
    \/ OscLoopLoad
    \/ OscLoopDecide
    \/ NanosleepReturns
    \/ OscReturn

NextLoop ==
    \/ RecStep
    \/ OscStep
    \/ Edge
    \/ \E p \in Procs : ExitHandler(p)

\* Both programs are scheduled: a program that can take a step takes one, and
\* a program waiting for the guard gets it when it is released again and
\* again. Edges and signals come from outside and may never come.
SpecLoop == InitLoop /\ [][NextLoop]_vars /\ WF_vars(RecStep) /\ SF_vars(OscStep)

----------------------------------------------------------------------------
(* The claims. *)

\* the process holds the pointer a successful Initialize returned
Opened(p) == pc[p] = "rest" /\ ret[p] = "data"

\* the process is between Lock() and Unlock(), reading or writing value
AccessingValue(p) == pc[p] \in {"store_sec", "store_nsec", "load_sec", "load_nsec"}

\* C1: the timestamp the oscillator has copied out of the slot is the slot's
\* initial value (0,0) or the complete value of one recorder write, never the
\* seconds of one write with the nanoseconds of another.
C1_NoTornRead ==
    pc["osc"] \in {"osc_unlock", "decide"} => peer_wakeup \in written \cup {empty_ts}

\* C2: two handles that Initialize attached with the same key, and that are
\* attached at the same time, are attached to the same segment, so one reads
\* what the other wrote.
C2_AttachedHandlesShareSegment ==
    \A p, q \in Procs :
        (Opened(p) /\ Opened(q) /\ h[p].key_ = h[q].key_) => SegOf(p) = SegOf(q)

\* C3: the guard of a segment is initialized exactly once, by the handle whose
\* exclusive create succeeded: never twice, never by a handle that found the
\* segment existing, and it has been initialized once that handle's Initialize
\* has returned the slot.
C3_GuardInitializedOnceByCreator ==
    /\ \A s \in Shmids : inits[s] <= 1
    /\ \A p \in Procs : pc[p] = "mutex_init" => excl[p] = "created"
    /\ \A p \in Procs : (Opened(p) /\ excl[p] = "created") => inits[SegOf(p)] = 1

\* C4: no process runs Lock() on a guard that pthread_mutex_init has not yet
\* set up.
C4_GuardInitializedBeforeLock ==
    \A p \in Procs : lockinit[p]

\* C5: an Initialize whose exclusive create succeeded leaves the handle flagged
\* as creator, and one that found the segment existing leaves it flagged as
\* non-creator.
C5_CreatorFlagMatchesCreate ==
    \A p \in Procs :
        /\ excl[p] = "created" => h[p].is_owner_
        /\ excl[p] = "existed" => ~h[p].is_owner_

\* C6: a segment is marked for removal only by the shmctl of a Shutdown whose
\* handle is flagged creator, after that Shutdown detached the handle's own
\* mapping of that very segment; a Shutdown of a handle flagged non-creator
\* detaches its mapping and marks nothing; a segment is destroyed only when it
\* is marked and nobody is attached, so every attachment is to a live segment.
Marked(seg) == seg.dest \/ seg.st = "gone"

C6_ShutdownDetachesOwnerMarks ==
    [][ /\ \A s \in Shmids :
             (Marked(shm'[s]) /\ ~Marked(shm[s])) =>
                 \E p \in Procs : /\ pc[p] = "shmctl" /\ pc'[p] = "rest"
                                  /\ h[p].is_owner_ /\ h[p].id_ = s
        /\ \A p \in Procs :
             (pc[p] = "rest" /\ pc'[p] = "shmctl") =>
                 /\ h[p].is_owner_ /\ SegOf(p) = h[p].id_
                 /\ maps'[p][h[p].data_] = 0
                 /\ shm'[h[p].id_].nattch = shm[h[p].id_].nattch - 1
        /\ \A p \in Procs :
             (pc[p] = "shmctl" /\ pc'[p] = "rest") =>
                 /\ Marked(shm'[h[p].id_])
                 /\ h'[p] = ClosedHandle
        /\ \A p \in Procs :
             (Shutdown(p) /\ SegOf(p) # 0 /\ ~h[p].is_owner_) =>
                 /\ maps'[p][h[p].data_] = 0
                 /\ h'[p] = ClosedHandle
                 /\ \A s \in Shmids : shm[s].dest = FALSE => shm'[s].dest = FALSE
        /\ \A s \in Shmids :
             (shm[s].st = "live" /\ shm'[s].st = "gone") =>
                 /\ shm[s].dest \/ \E p \in Procs : pc[p] = "shmctl"
                 /\ \A p \in Procs : \A a \in Addrs : maps'[p][a] # s
        /\ \A p \in Procs : \A a \in Addrs :
             maps'[p][a] # 0 => shm'[maps'[p][a]].st = "live"
      ]_vars

\* a segment its creator has marked is still there for the process attached to it
C6_Witness ==
    \E s \in Shmids : \E p \in Procs :
        shm[s].st = "live" /\ shm[s].dest /\ SegOf(p) = s /\ h[p] # ClosedHandle

\* C7: Initialize with a key that is zero or negative returns nullptr and
\* changes neither the handle nor the kernel's segments nor the attachments.
C7_BadKeyNoEffect ==
    [][ \A p \in Procs : \A k \in KeyInputs :
            (k <= 0 /\ Initialize(p, k)) =>
                /\ ret'[p] = "nullptr"
                /\ pc'[p] = "rest"
                /\ h' = h /\ shm' = shm /\ maps' = maps
      ]_vars

\* Initialize has returned nullptr to a handle that is still as constructed: only
\* a rejected key does that (an accepted one is stored in key_), and the other
\* process is attached to a segment meanwhile
C7_Witness ==
    /\ ret["rec"] = "nullptr" /\ h["rec"] = NewHandle
    /\ Opened("osc") /\ shm[SegOf("osc")].nattch = 1

\* C8: no failure of shmget, shmat or pthread_mutex_init inside Initialize
\* kills the process: Initialize returns nullptr instead.
C8_NoCrashOnFailure ==
    \A p \in Procs : pc[p] # "crashed"

\* C9: value is read or written only by a process whose Lock() succeeded: a
\* failed Lock() does not let the loop go on to the slot.
C9_ValueAccessedOnlyAfterLockSucceeded ==
    \A p \in Procs : AccessingValue(p) => lockok[p] = "yes"

----------------------------------------------------------------------------
(* The wakeup formulas.                                                     *)

\* the timestamp ns nanoseconds after ts, for 0 <= ns <= kSecToNano
AfterNanos(ts, ns) ==
    Ts(ts.tv_sec + ((ts.tv_nsec + ns) \div kSecToNano), (ts.tv_nsec + ns) % kSecToNano)

\* a is earlier than b
TsBefore(a, b) ==
    a.tv_sec < b.tv_sec \/ (a.tv_sec = b.tv_sec /\ a.tv_nsec < b.tv_nsec)

\* the statics of the process were initialized by a call on the current object,
\* or on one of its frequency
OwnStatics == kConvFactor = StaticsAfterCall(NoStatics, sync.frequency_)

\* C11: for a normalized actual_wakeup and a positive frequency, the free-running
\* wakeup is actual_wakeup plus floor(1e9 / frequency) nanoseconds, as a
\* timestamp whose nanosecond field is in [0, 1e9), the carry added to the
\* seconds.
C11_FreeRunningOnePeriod ==
    called = "SetWakeupUsingBaseFreq" =>
        /\ new_wakeup = AfterNanos(args.actual_wakeup, kSecToNano \div sync.frequency_)
        /\ new_wakeup.tv_nsec >= 0 /\ new_wakeup.tv_nsec < kSecToNano

\* 4.99 s plus the 10 ms period of 100 Hz: the nanoseconds reach exactly one
\* second and are carried
C11_Witness ==
    /\ called = "SetWakeupUsingBaseFreq"
    /\ sync.frequency_ = kDefaultFreqHz
    /\ args.actual_wakeup = Ts(4, 990000000)
    /\ new_wakeup = Ts(5, 0)

\* C12: when expected_wakeup, actual_wakeup and peer_wakeup are all equal,
\* ComputeNewWakeup returns actual_wakeup plus exactly one period of
\* 1e9 / frequency nanoseconds, for every positive frequency (here those whose
\* period is a whole number of nanoseconds) and every coupling constant.
C12_OnTimeOnePeriod ==
    ( /\ called = "ComputeNewWakeup"
      /\ OwnStatics
      /\ args.expected_wakeup = args.actual_wakeup
      /\ args.peer_wakeup = args.actual_wakeup
      /\ kSecToNano % sync.frequency_ = 0 ) =>
        new_wakeup = AfterNanos(args.actual_wakeup, kSecToNano \div sync.frequency_)

\* C13: for normalized timestamps and accepted parameters, the nanosecond field
\* of the timestamp ComputeNewWakeup returns is in [0, 1e9).
C13_ResultNormalized ==
    (called = "ComputeNewWakeup" /\ OwnStatics) =>
        (new_wakeup.tv_nsec >= 0 /\ new_wakeup.tv_nsec < kSecToNano)

\* C14: for accepted parameters, the timestamp ComputeNewWakeup returns is never
\* earlier than actual_wakeup.
C14_ResultNotBeforeActual ==
    (called = "ComputeNewWakeup" /\ OwnStatics) =>
        ~TsBefore(new_wakeup, args.actual_wakeup)

\* C15: what ComputeNewWakeup returns depends on its three timestamps and on the
\* frequency and coupling constant of its object only: it is what the call
\* returns in a process that has made no other object, whatever objects the
\* process constructed or called before.
C15_ResultIndependentOfEarlierObjects ==
    called = "ComputeNewWakeup" => new_wakeup = alone

----------------------------------------------------------------------------
(* The event loops. *)

\* the oscillator is in a cycle: between its loop test and its sleep
InCycle == at["osc"] \in {"Lock", "locked"}

\* C16: whatever the recorder does, and also when no edge ever arrives and it
\* never writes, the oscillator is never blocked for good: every cycle it
\* starts reaches its sleep, and after the sleep the following cycle starts
\* (or the oscillator was told to exit).
C16_OscillatorNeverBlocked ==
    /\ InCycle ~> (at["osc"] = "clock_nanosleep")
    /\ (at["osc"] = "clock_nanosleep") ~> (InCycle \/ exit_gtimer["osc"])

\* the oscillator waits for the guard while the recorder holds it
C16_Witness ==
    /\ at["osc"] = "Lock"
    /\ shm[SegOf("osc")].lock.owner = "rec"

\* C17: once the signal handler has set the oscillator's exit flag, the
\* oscillator finishes the cycle in progress (its sleep may return early), its
\* next loop test leaves the loop and starts no further cycle, and the process
\* ends with exit code 0.
C17_OscillatorLeavesOnFlag ==
    /\ exit_gtimer["osc"] ~> (exit_code["osc"] = 0)
    /\ [][(exit_gtimer["osc"] /\ at["osc"] = "while") => (at["osc"]' \in {"while", "left"})]_vars
    /\ [][(exit_gtimer["osc"] /\ InCycle) => (InCycle' \/ at["osc"]' = "clock_nanosleep")]_vars

\* the oscillator has returned 0 after its flag was set
C17_Witness ==
    /\ exit_gtimer["osc"]
    /\ at["osc"] = "returned"
    /\ exit_code["osc"] = 0

\* C18: wherever in the recorder's loop the signal is delivered, also between
\* the loop test and the start of the blocking wait, the recorder eventually
\* sees the flag, leaves its loop and exits, even if no further edge occurs.
C18_RecorderLeavesOnFlag ==
    exit_gtimer["rec"] ~> (at["rec"] = "returned")

\* the recorder is storing a timestamp into the slot
Publishing == at["rec"] = "locked" /\ pc["rec"] \in {"store_sec", "store_nsec"}

\* C19: when WaitForEdge returns because the wait was interrupted or failed,
\* and not because of an edge, the recorder publishes no timestamp for it:
\* every timestamp it stores into the slot follows a WaitForEdge that
\* returned success.
C19_PublishesOnlyDetectedEdges ==
    Publishing => success

\* WaitForEdge has returned success to the recorder's loop
ReportsSuccess == at["rec"] = "Lock" /\ success

\* C20: a WaitForEdge call that reports success returns after exactly one
\* edge occurred on the line since the call began: never for the initial
\* state of the line with no edge, and never after taking up more than one
\* edge.
C20_SuccessAfterOneEdge ==
    ReportsSuccess => edges = 1

----------------------------------------------------------------------------
(* The Gpio methods. *)

\* the line of the object the last method was called on
LineAfter == gpio[did.object]

\* C21: after the edge mode of a line was set (none, rising, falling or both),
\* the line's direction is input, whatever it was before.
C21_EdgeTypeMakesInput ==
    did.method = "EdgeType" => LineAfter.direction = "in"

\* C22: ToggleOutput leaves the line an output at the complement of the level
\* it had when ToggleOutput was called, for either starting level and either
\* starting direction.
C22_ToggleComplements ==
    did.method = "ToggleOutput" =>
        /\ LineAfter.direction = "out"
        /\ LineAfter.value = 1 - did.before.value

----------------------------------------------------------------------------
(* Descriptors and the slot at the recorder's exits. *)

\* the recorder is not inside a WaitForEdge call
OutsideWaitForEdge == at["rec"] \notin {"epoll_wait", "in_epoll_wait"}

\* C28: every return of WaitForEdge, successful or failing, has closed every
\* descriptor the call opened (the epoll instance and the value file): the
\* recorder holds as many descriptors after any number of calls as before the
\* first.
C28_WaitForEdgeClosesAll ==
    OutsideWaitForEdge => fds = 0

\* the segment the recorder created is marked for removal, or gone
RemovalRequested ==
    \A i \in Shmids : (shm[i].st = "live" /\ shm[i].key = Key) => shm[i].dest

\* C29: on every path by which the recorder exits after its Initialize
\* succeeded (cancellation, a failure to set the direction or the edge mode,
\* a failure to construct the Gpio object), Shutdown was called on the handle,
\* so the segment the recorder created is marked for removal.
C29_ShutdownBeforeExit ==
    at["rec"] = "returned" => (h["rec"] = ClosedHandle /\ RemovalRequested)

----------------------------------------------------------------------------
(* The guard and the slot in the two loops. *)

\* process p holds a guard
Holds(p) == \E i \in Shmids : shm[i].lock.owner = p

SlotSeg == shm[1]

\* what the recorder's writes have left in the slot
LastWritten == IF written = {} THEN empty_ts ELSE storing

\* C27: the oscillator never changes the slot's value: every step of its
\* cycle leaves the value of a slot that still exists as it was, so value is
\* the initial (0,0) or the timestamp of the most recent recorder write
\* (outside the two stores of a write in progress).
C27_OscillatorLeavesValue ==
    /\ [][OscStep => (\A i \in Shmids : shm[i].st' = "live" => shm[i].data' = shm[i].data)]_vars
    /\ []((SlotSeg.st = "live" /\ pc["rec"] # "store_nsec") => SlotSeg.data = LastWritten)

\* the oscillator has copied a timestamp the recorder wrote, and sleeps
C27_Witness ==
    /\ at["osc"] = "clock_nanosleep"
    /\ written # {}
    /\ peer_wakeup = storing
    /\ SlotSeg.data = storing

----------------------------------------------------------------------------
(* The accessors of the handle. *)

\* shmem.hpp:83, 91
GetKey(p) == h[p].key_
GetData(p) == h[p].data_

\* the handle of p is initialized: its last Initialize returned the slot and
\* no Shutdown followed
Initialized(p) == ret[p] = "data"

\* the handle of p holds a live attachment whose guard is initialized
AttachedWithGuard(p) == SegOf(p) # 0 /\ shm[SegOf(p)].lock.init

\* C25: between any calls of Initialize and Shutdown on a handle, failed
\* ones included, GetData() is non-null exactly when the handle is
\* initialized and holds a live attachment with an initialized guard, and
\* GetKey() is 0 exactly when the handle is uninitialized; so after a failed
\* Initialize and after a Shutdown that detached, GetData() is nullptr and
\* GetKey() is 0.
C25_AccessorsTellState ==
    \A p \in Procs : pc[p] = "rest" =>
        /\ (GetData(p) # 0) <=> (Initialized(p) /\ AttachedWithGuard(p))
        /\ (GetKey(p) = 0) <=> ~Initialized(p)

----------------------------------------------------------------------------
(* The oscillator's cycle with its timestamps and its line (gsync.cc
   RunEventLoop). What the locked copy of the slot yields comes from outside:
   the slot is written by the recorder. *)

\* the most cycles followed
MaxCycles == 3

\* the clock when RunEventLoop is entered
StartTimes == {Ts(5, 0), Ts(4, 990000000)}
\* how late after its expected wakeup the oscillator wakes up (ns): on time
\* or half a period of kDefaultFreqHz
Lateness == {0, 5000000}
\* what the oscillator finds in the slot: nothing yet, what it found on the
\* preceding cycle, or a timestamp three quarters of a period before its
\* expected wakeup
PeerReads(expected, prev) == {empty_ts, prev, AfterNanos(expected, -7500000)}

\* gsync.cc:183-190: the line was made an output and driven low, the
\* KuramotoSync object was made with the default frequency and coupling
InitCycle ==
    /\ Attached
    /\ sync = KuramotoSync(kDefaultFreqHz, kDefaultCouplingConst)
    /\ kConvFactor = NoStatics
    /\ args = NoArgs
    /\ new_wakeup = empty_ts
    /\ called = "none"
    /\ alone = NoTs
    /\ at = [p \in Procs |-> IF p = "rec" THEN "Gpio" ELSE "RunEventLoop"]
    /\ exit_gtimer = [p \in Procs |-> FALSE]
    /\ events = 0
    /\ success = TRUE
    /\ ready = FALSE
    /\ intr = [p \in Procs |-> FALSE]
    /\ edges = 0
    /\ exit_code = [p \in Procs |-> -1]
    /\ gpio = [p \in Procs |-> IF p = "osc" THEN Val(Dir(Exported, "kOutput"), kLow)
                                             ELSE Exported]
    /\ did = NoCall
    /\ fds = 0
    /\ expected_wakeup = empty_ts
    /\ actual_wakeup = empty_ts
    /\ until = NoTs
    /\ seed = NoTs
    /\ computed = NoTs
    /\ cycles = 0

\* gsync.cc:65: clock_gettime(CLOCK_MONOTONIC, &expected_wakeup)
CycSeed ==
    /\ at["osc"] = "RunEventLoop"
    /\ \E t \in StartTimes :
         /\ expected_wakeup' = t
         /\ seed' = t
    /\ at' = [at EXCEPT !["osc"] = "while"]
    /\ UNCHANGED <<actual_wakeup, until, computed, cycles, gpioVars, slotVars, syncVars,
                   exit_gtimer, events, success, ready, intr, edges, exit_code>>

\* gsync.cc:66: the loop test; a cycle starts
CycWhile ==
    /\ at["osc"] = "while"
    /\ IF KeepRunning(exit_gtimer["osc"])
       THEN /\ cycles < MaxCycles
            /\ cycles' = cycles + 1
            /\ computed' = new_wakeup
            /\ at' = [at EXCEPT !["osc"] = "Val_high"]
       ELSE /\ at' = [at EXCEPT !["osc"] = "left"]
            /\ UNCHANGED <<cycles, computed>>
    /\ UNCHANGED <<expected_wakeup, actual_wakeup, until, seed, gpioVars, slotVars, syncVars,
                   exit_gtimer, events, success, ready, intr, edges, exit_code>>

\* gsync.cc:68: runtime_gpio.Val(kHigh)
CycValHigh ==
    /\ at["osc"] = "Val_high"
    /\ gpio' = [gpio EXCEPT !["osc"] = Val(gpio["osc"], kHigh)]
    /\ did' = Calling("osc", "Val")
    /\ at' = [at EXCEPT !["osc"] = "clock_gettime"]
    /\ UNCHANGED <<fds, cycleVars, slotVars, syncVars,
                   exit_gtimer, events, success, ready, intr, edges, exit_code>>

\* gsync.cc:71: clock_gettime(CLOCK_MONOTONIC, &actual_wakeup)
CycGettime ==
    /\ at["osc"] = "clock_gettime"
    /\ \E late \in Lateness : actual_wakeup' = AfterNanos(expected_wakeup, late)
    /\ at' = [at EXCEPT !["osc"] = "Lock"]
    /\ UNCHANGED <<expected_wakeup, until, seed, computed, cycles, gpioVars, slotVars, syncVars,
                   exit_gtimer, events, success, ready, intr, edges, exit_code>>

\* gsync.cc:74-76: Lock(), peer_wakeup = peer_runtime->data, Unlock()
CycRead ==
    /\ at["osc"] = "Lock"
    /\ \E peer \in PeerReads(expected_wakeup, prev_peer_wakeup) : peer_wakeup' = peer
    /\ lastread' = IF invoked = "none" THEN NoTs ELSE peer_wakeup
    /\ at' = [at EXCEPT !["osc"] = "decide"]
    /\ UNCHANGED <<pc, h, errno, ret, shmVars, excl, lockVars, recVars, prev_peer_wakeup,
                   invoked, extVars, syncVars,
                   exit_gtimer, events, success, ready, intr, edges, exit_code>>

\* gsync.cc:78-90: new_wakeup from one of the two formulas, and
\* prev_peer_wakeup = peer_wakeup
CycCompute ==
    /\ at["osc"] = "decide"
    /\ IF PeerSilent(prev_peer_wakeup, peer_wakeup)
       THEN /\ new_wakeup' = SetWakeupUsingBaseFreq(actual_wakeup, sync.frequency_)
            /\ invoked' = "SetWakeupUsingBaseFreq"
            /\ UNCHANGED kConvFactor
       ELSE \E conv \in {StaticsAfterCall(kConvFactor, sync.frequency_)} :
              /\ SinKnown(PhaseLag(conv, expected_wakeup, actual_wakeup, peer_wakeup))
              /\ new_wakeup' = ComputeNewWakeup(conv, sync, expected_wakeup, actual_wakeup,
                                                peer_wakeup)
              /\ invoked' = "ComputeNewWakeup"
              /\ kConvFactor' = conv
    /\ prev_peer_wakeup' = RememberPeer(prev_peer_wakeup, peer_wakeup)
    /\ at' = [at EXCEPT !["osc"] = "Val_low"]
    /\ UNCHANGED <<pc, h, errno, ret, shmVars, excl, lockVars, recVars, peer_wakeup, lastread,
                   sync, args, called, alone, extVars,
                   exit_gtimer, events, success, ready, intr, edges, exit_code>>

\* gsync.cc:93: runtime_gpio.Val(kLow)
CycValLow ==
    /\ at["osc"] = "Val_low"
    /\ gpio' = [gpio EXCEPT !["osc"] = Val(gpio["osc"], kLow)]
    /\ did' = Calling("osc", "Val")
    /\ at' = [at EXCEPT !["osc"] = "expected"]
    /\ UNCHANGED <<fds, cycleVars, slotVars, syncVars,
                   exit_gtimer, events, success, ready, intr, edges, exit_code>>

\* for comparison: a cycle that sleeps without saving its new wakeup
CycSleep_forgets ==
    /\ at["osc"] = "expected"
    /\ until' = new_wakeup
    /\ at' = [at EXCEPT !["osc"] = "clock_nanosleep"]
    /\ UNCHANGED <<expected_wakeup, actual_wakeup, seed, computed, cycles, gpioVars, slotVars,
                   syncVars, exit_gtimer, events, success, ready, intr, edges, exit_code>>

\* gsync.cc:96-97: expected_wakeup = new_wakeup, and clock_nanosleep is
\* entered with TIMER_ABSTIME and &new_wakeup
CycSleep ==
    /\ at["osc"] = "expected"
    /\ expected_wakeup' = new_wakeup
    /\ until' = new_wakeup
    /\ at' = [at EXCEPT !["osc"] = "clock_nanosleep"]
    /\ UNCHANGED <<actual_wakeup, seed, computed, cycles, gpioVars, slotVars, syncVars,
                   exit_gtimer, events, success, ready, intr, edges, exit_code>>

NextCycle ==
    \/ CycSeed
    \/ CycWhile
    \/ CycValHigh
    \/ CycGettime
    \/ CycRead
    \/ CycCompute
    \/ CycValLow
    \/ CycSleep
    \/ NanosleepReturns
    \/ OscReturn
    \/ ExitHandler("osc")

SpecCycle == InitCycle /\ [][NextCycle]_vars

\* the level of the oscillator's line
Level == gpio["osc"].value

\* the oscillator is in a cycle, before it saves its new wakeup
CycleBegun == at["osc"] \in {"Val_high", "clock_gettime", "Lock", "decide", "Val_low"}

C24_ExpectedIsLastNewWakeup ==
    CycleBegun =>
        IF cycles = 1
        THEN expected_wakeup = seed
        ELSE expected_wakeup = computed /\ until = computed

\* a second cycle whose preceding cycle used ComputeNewWakeup
C24_Witness ==
    /\ CycleBegun
    /\ cycles = 2
    /\ invoked = "ComputeNewWakeup"
    /\ expected_wakeup = computed
    /\ at["osc"] = "Lock"

====
